---- MODULE Spec2Model ----
(***************************************************************************)
(* amquery: the pairwise distance cache (PwMatrix) and the distance        *)
(* metrics it is built on.                                                 *)
(*                                                                         *)
(* Distances are IEEE doubles in the code.  Every distance the jaccard     *)
(* metric can return is 1 - i/u for small integers i <= u, so a distance   *)
(* is kept here as the reduced fraction (u-i)/u: two such doubles are      *)
(* equal exactly when the fractions are.  numpy's nan, the "unknown" cell, *)
(* is a value of its own.                                                  *)
(***************************************************************************)
EXTENDS Integers, Sequences, FiniteSets, TLC

\* ---------------------------------------------------------------- bounds
NSamples == 3      \* samples the k-mer supplier knows
MaxInit == 3       \* longest sample map handed to create
MaxOps == 3        \* cache operations after create/load
MaxKey == 2        \* k-mers 1..MaxKey in the metric inputs
MaxCount == 2      \* occurrence counts 1..MaxCount in the metric inputs
MaxGene == 1       \* gene values 0..MaxGene
MaxLen == 2        \* longest chromosome
MaxSize == 3       \* largest population size
MaxAncestors == 3  \* longest ancestor sequence
MaxLegends == 2    \* largest legend capacity
MaxGen == 2        \* most generations asked of evolve
MaxN == 3          \* largest distance matrix handed to the objective function
MaxDist == 1       \* distances 0..MaxDist in it
MaxCmds == 4       \* commands given to the command line, one after another

\* ---------------------------------------------------------------- values
RECURSIVE GCD(_, _)
GCD(m, n) == IF n = 0 THEN m ELSE GCD(n, m % n)

Float(n, d) == [kind |-> "float", num |-> n \div GCD(n, d), den |-> d \div GCD(n, d)]
NaN == [kind |-> "nan", num |-> 0, den |-> 1]
ZeroDivisionError == [kind |-> "ZeroDivisionError", num |-> 0, den |-> 1]
NoValue == [kind |-> "none", num |-> 0, den |-> 1]
isnan(v) == v.kind = "nan"

ToSet(s) == {s[i] : i \in 1..Len(s)}
IndexOf(s, x) == CHOOSE i \in 1..Len(s) : s[i] = x

\* ---------------------------------------------------------------- metrics
\* A frequency map is a function from the k-mers it holds to their counts.
Keys == 1..MaxKey
Maps == UNION {[K -> 1..MaxCount] : K \in SUBSET Keys}

hash_to_set(x) == {x[k] : k \in DOMAIN x}

jaccard(hx_, hy_) ==
    LET x == hash_to_set(hx_)
        y == hash_to_set(hy_)
        intersection == Cardinality(x \cap y)
        union == Cardinality(x) + Cardinality(y) - intersection
    IN  IF union = 0 THEN ZeroDivisionError
        ELSE Float(union - intersection, union)

\* defaultdict.__getitem__: a missing key is inserted with the default 0.
lookup(h, k) == IF k \in DOMAIN h THEN h[k] ELSE 0

\* x / sum(x), one entry: 0 / 0 is nan.
normalized(count, total) == IF total = 0 THEN NaN ELSE Float(count, total)

RECURSIVE SumOver(_, _)
SumOver(h, K) ==
    IF K = {} THEN 0
    ELSE LET k == CHOOSE j \in K : TRUE IN lookup(h, k) + SumOver(h, K \ {k})

\* JSD(hx, hy) on two defaultdicts.  key_union is a copy of hx updated with
\* hy; hx[key] and hy[key] are read for every key of it, which inserts the
\* keys a map lacks.  The arrays x / sum(x) and y / sum(y) over key_union
\* determine the float the log2, sum and sqrt of lines 36-41 return: the
\* value is kept as these two arrays.
JSD(hx_, hy_) ==
    LET key_union == DOMAIN hx_ \cup DOMAIN hy_
        hx1 == [k \in key_union |-> lookup(hx_, k)]
        hy1 == [k \in key_union |-> lookup(hy_, k)]
        sx == SumOver(hx1, key_union)
        sy == SumOver(hy1, key_union)
    IN  [hx |-> hx1,
         hy |-> hy1,
         value |-> [kind |-> "JSD",
                    x |-> [k \in key_union |-> normalized(hx1[k], sx)],
                    y |-> [k \in key_union |-> normalized(hy1[k], sy)]]]

\* ---------------------------------------------------------------- samples
\* Sample names, in the order the bound NSamples takes them.  A sample's
\* name is the stem of its file, any string; "id" is one of them.
SampleNames == <<"a", "b", "id", "c", "d">>
Samples == {SampleNames[i] : i \in 1..NSamples}

\* The metrics config.dist.func can name: those of metrics.py.
Metrics == {"jaccard", "jsd"}

\* The values of config.dist.kmer_size.
KmerSizes == {1, 2}

\* The configurations of a build: config.dist, as the build command sets it.
Configs == [func : Metrics, kmer_size : KmerSizes]

\* Sample.kmer_index(config): the external k-mer supplier, the frequency map
\* of the sample's k-mers of length config.dist.kmer_size.  A sample whose
\* reads are all shorter than that has no k-mer, and the empty map.
kmer_index(config, s) ==
    CASE s = "a" -> IF config.kmer_size = 1 THEN (1 :> 1 @@ 2 :> 3) ELSE (4 :> 2)
      [] s = "b" -> IF config.kmer_size = 1 THEN (3 :> 1) ELSE <<>>
      [] s = "id" -> <<>>
      [] s = "c" -> IF config.kmer_size = 1 THEN (1 :> 3 @@ 3 :> 1) ELSE (4 :> 1 @@ 5 :> 1)
      [] OTHER -> (1 :> 1 @@ 2 :> 2 @@ 3 :> 3 @@ 4 :> 4)

\* The float JSD returns, where the two arrays decide it whatever the order
\* of the keys.  With no key the sum is empty, with a nan entry (a map
\* summing to 0) every term is nan and set to 0, and with equal arrays every
\* term is x * log2(1): the sqrt of 0.  With no key in both maps each term
\* is x * log2(2) or y * log2(2), and when the entries are dyadic their sum
\* is 2 in any order: the sqrt of 1.  Otherwise the float depends on the
\* rounding of the sum and is known by the two arrays only.
dyadic(v) == v.den \in {1, 2, 4, 8, 16}

jsd_float(v) ==
    IF \/ DOMAIN v.x = {}
       \/ \E k \in DOMAIN v.x : isnan(v.x[k]) \/ isnan(v.y[k])
       \/ v.x = v.y
    THEN Float(0, 1)
    ELSE IF \A k \in DOMAIN v.x :
                /\ v.x[k].num = 0 \/ v.y[k].num = 0
                /\ dyadic(v.x[k]) /\ dyadic(v.y[k])
    THEN Float(1, 1)
    ELSE v

\* self.__distfunc = distances[config.dist.func], applied to the two samples'
\* k-mer indices: a float, or the exception the metric raises.
distfunc(config, a, b) ==
    IF config.func = "jaccard" THEN jaccard(kmer_index(config, a), kmer_index(config, b))
    ELSE jsd_float(JSD(kmer_index(config, a), kmer_index(config, b)).value)

raises(v) == v.kind = "ZeroDivisionError"

\* ---------------------------------------------------------------- PwMatrix
\* The PwMatrix object: the dataframe (columns, index, cell[<<column, row>>]),
\* the sample map and the configuration, which names the metric.  ok is FALSE once an exception has escaped
\* a method.
labels(F) == ToSet(F.columns)

\* itertools.combinations(distributions, 2): the pairs (i, j), i < j.
combinations2(samples) ==
    {<<samples[i], samples[j]>> : i \in 1..Len(samples), j \in 1..Len(samples)} \cap
    {p \in ToSet(samples) \X ToSet(samples) : IndexOf(samples, p[1]) < IndexOf(samples, p[2])}

\* scipy.spatial.distance.squareform of the condensed vector: the value of
\* pair (i, j), i < j, at [i, j] and [j, i], zero on the diagonal.
squareform(config, samples, c, r) ==
    LET i == IndexOf(samples, c)
        j == IndexOf(samples, r)
    IN  IF i = j THEN Float(0, 1)
        ELSE IF i < j THEN distfunc(config, samples[i], samples[j])
        ELSE distfunc(config, samples[j], samples[i])

\* The pairs np.fromiter takes from starmap(distance_func, pairs): all of
\* them, in the order of combinations, or those up to the first one the
\* metric raises on.
starmap(config, samples) ==
    LET pairs == combinations2(samples)
        before(p, q) ==
            \/ IndexOf(samples, p[1]) < IndexOf(samples, q[1])
            \/ p[1] = q[1] /\ IndexOf(samples, p[2]) < IndexOf(samples, q[2])
        raising == {p \in pairs : raises(distfunc(config, p[1], p[2]))}
        first == CHOOSE p \in raising : \A q \in raising : p = q \/ before(p, q)
    IN  [raised |-> raising # {},
         evaluated |-> IF raising = {} THEN pairs
                       ELSE {q \in pairs : q = first \/ before(q, first)}]

\* PwMatrix.create: the object it returns; ok is FALSE when the metric
\* raised on a pair, or when there is no sample (squareform then returns a
\* 1 x 1 matrix that the empty label list does not fit), and then there is
\* no object.
create(config, samples) ==
    IF Len(samples) = 0 \/ starmap(config, samples).raised
    THEN [columns |-> <<>>, index |-> <<>>, cell |-> <<>>, sample_map |-> {},
          config |-> config, ok |-> FALSE]
    ELSE [columns |-> samples,
          index |-> samples,
          cell |-> [p \in ToSet(samples) \X ToSet(samples) |->
                       squareform(config, samples, p[1], p[2])],
          sample_map |-> ToSet(samples),
          config |-> config,
          ok |-> TRUE]

\* pwcomp.pwmatrix(func, data), the pooled bulk build.  Line 13 has the pool
\* evaluate func on the pairs: on all of them, or, when a call raises, on
\* those up to the first raising pair and on whichever others the pool's
\* chunks reached, and the exception comes back from the pool.  Line 14 then
\* hands squareform a map object, before func is called a second time: no
\* vector of distances, so that squareform raises (TypeError or ValueError,
\* by the scipy installed) or wraps the one object in a 2 x 2 array.  No
\* outcome is the matrix of the distances.
pwmatrix(config, data) ==
    LET pool == starmap(config, data)
    IN  IF pool.raised
        THEN {[outcome |-> "ZeroDivisionError", evaluated |-> pool.evaluated \cup more] :
                 more \in SUBSET (combinations2(data) \ pool.evaluated)}
        ELSE {[outcome |-> o, evaluated |-> pool.evaluated] :
                 o \in {"TypeError", "ValueError", "array of the map object"}}

\* add_sample that rebuilds the frame over the new labels, dropping what the
\* cells held.
add_sample_reset(F, name) ==
    IF name \in labels(F) THEN F
    ELSE LET columns1 == Append(F.columns, name)
             index1 == Append(F.index, name)
         IN  [columns |-> columns1,
              index |-> index1,
              cell |-> [p \in ToSet(columns1) \X ToSet(index1) |-> NaN],
              sample_map |-> F.sample_map \cup {name},
              config |-> F.config,
              ok |-> TRUE]

\* add_sample that sets the new sample's distance to itself to zero.
add_sample_zero_diagonal(F, name) ==
    IF name \in labels(F) THEN F
    ELSE LET columns1 == Append(F.columns, name)
             index1 == Append(F.index, name)
         IN  [columns |-> columns1,
              index |-> index1,
              cell |-> [p \in ToSet(columns1) \X ToSet(index1) |->
                           IF p = <<name, name>> THEN Float(0, 1)
                           ELSE IF name \in {p[1], p[2]} THEN NaN
                           ELSE F.cell[p]],
              sample_map |-> F.sample_map \cup {name},
              config |-> F.config,
              ok |-> TRUE]

\* add_sample: a new column of nan over the present index, then a new row of
\* len(dataframe) + 1 nan.  pandas refuses a row whose length differs from
\* the number of columns: the exception leaves the column added, the row and
\* the sample map untouched.
add_sample(F, name) ==
    IF name \in labels(F) THEN F
    ELSE LET columns1 == Append(F.columns, name)
             cell1 == [p \in ToSet(columns1) \X ToSet(F.index) |->
                          IF p[1] = name THEN NaN ELSE F.cell[p]]
             index1 == IF name \in ToSet(F.index) THEN F.index ELSE Append(F.index, name)
         IN  IF Len(F.index) + 1 # Len(columns1)
             THEN [F EXCEPT !.columns = columns1, !.cell = cell1, !.ok = FALSE]
             ELSE [columns |-> columns1,
                   index |-> index1,
                   cell |-> [p \in ToSet(columns1) \X ToSet(index1) |->
                                IF p[2] = name THEN NaN ELSE cell1[p]],
                   sample_map |-> F.sample_map \cup {name},
                   config |-> F.config,
                   ok |-> TRUE]

\* __getitem__((a, b)): add the samples that are no labels yet, fill the cell
\* of column a, row b if it is nan, return that cell.  evaluated tells
\* whether the metric was called.  The store dataframe[a][b] = value goes
\* through the column to the frame (one float block, the pandas of
\* as_matrix); only that one cell is written.  When the metric raises, the
\* exception leaves __getitem__: the samples stay added, the cell stays nan
\* and nothing is returned.
getitem(F, a, b) ==
    LET F1 == IF a \in labels(F) THEN F ELSE add_sample(F, a)
        F2 == IF ~F1.ok \/ b \in labels(F1) THEN F1 ELSE add_sample(F1, b)
    IN  IF ~F2.ok THEN [frame |-> F2, ret |-> NoValue, evaluated |-> FALSE]
        ELSE LET miss == isnan(F2.cell[<<a, b>>])
                 value == distfunc(F2.config, a, b)
             IN  IF miss /\ raises(value)
                 THEN [frame |-> [F2 EXCEPT !.ok = FALSE], ret |-> NoValue,
                       evaluated |-> TRUE]
                 ELSE LET F3 == IF miss THEN [F2 EXCEPT !.cell[<<a, b>>] = value] ELSE F2
                      IN  [frame |-> F3, ret |-> F3.cell[<<a, b>>], evaluated |-> miss]

\* The statements of add_sample and __getitem__ one by one, as two calls
\* running at once take them.  Each gives the frame it leaves and the
\* exception it raises, if any.
Threads == {1, 2}

\* pd.Series(initvalues, index=dataframe.index), initvalues being a list of
\* n nan: pandas refuses a Series whose data and index differ in length.
Series(F, n) == IF n # Len(F.index) THEN "ValueError" ELSE "none"

\* dataframe[name] = series, the Series holding nan only: the assignment
\* aligns it to the index the frame has by then, so the column is nan in
\* every row, whether it is new or not.
set_column(F, name) ==
    LET columns1 == IF name \in ToSet(F.columns) THEN F.columns
                    ELSE Append(F.columns, name)
    IN  [F EXCEPT !.columns = columns1,
                  !.cell = [p \in ToSet(columns1) \X ToSet(F.index) |->
                               IF p[1] = name THEN NaN ELSE F.cell[p]]]

\* dataframe.loc[name] = initvalues + [nan], a list of n + 1 nan: pandas
\* refuses a row whose length differs from the number of columns; otherwise
\* the row is nan in every column, whether it is new or not.
set_row(F, name, n) ==
    IF n + 1 # Len(F.columns) THEN [frame |-> F, raised |-> "ValueError"]
    ELSE LET index1 == IF name \in ToSet(F.index) THEN F.index ELSE Append(F.index, name)
         IN  [frame |-> [F EXCEPT !.index = index1,
                                  !.cell = [p \in ToSet(F.columns) \X ToSet(index1) |->
                                               IF p[2] = name THEN NaN ELSE F.cell[p]]],
              raised |-> "none"]

\* One step of the call c of __getitem__((a, b)) on the frame F: the call and
\* the frame after it.  A step is a statement, the column assignment of
\* add_sample being two: its right side, then the assignment.
step(F, c, a, b) ==
    LET name == IF c.x = 1 THEN a ELSE b
        onward == IF c.x = 1 THEN [c EXCEPT !.pc = "check", !.x = 2]
                  ELSE [c EXCEPT !.pc = "isnan", !.x = 0]
        raises_(e) == [c EXCEPT !.pc = "raised", !.raised = e]
        same(call) == [call |-> call, frame |-> F]
    IN  CASE c.pc = "check" ->
               same(IF name \in labels(F) THEN onward ELSE [c EXCEPT !.pc = "guard"])
          [] c.pc = "guard" ->
               same(IF name \in labels(F) THEN onward ELSE [c EXCEPT !.pc = "initvalues"])
          [] c.pc = "initvalues" ->
               same([c EXCEPT !.pc = "series", !.initvalues = Len(F.index)])
          [] c.pc = "series" ->
               same(IF Series(F, c.initvalues) # "none" THEN raises_(Series(F, c.initvalues))
                    ELSE [c EXCEPT !.pc = "column"])
          [] c.pc = "column" ->
               [call |-> [c EXCEPT !.pc = "row"], frame |-> set_column(F, name)]
          [] c.pc = "row" ->
               LET r == set_row(F, name, c.initvalues)
               IN  [call |-> IF r.raised # "none" THEN raises_(r.raised)
                             ELSE [c EXCEPT !.pc = "sample_map"],
                    frame |-> r.frame]
          [] c.pc = "sample_map" ->
               [call |-> onward, frame |-> [F EXCEPT !.sample_map = @ \cup {name}]]
          [] c.pc = "isnan" ->
               same(IF <<a, b>> \notin DOMAIN F.cell THEN raises_("KeyError")
                    ELSE IF isnan(F.cell[<<a, b>>]) THEN [c EXCEPT !.pc = "distfunc"]
                    ELSE [c EXCEPT !.pc = "return"])
          [] c.pc = "distfunc" ->
               same(IF raises(distfunc(F.config, a, b)) THEN raises_("ZeroDivisionError")
                    ELSE [c EXCEPT !.pc = "store", !.value = distfunc(F.config, a, b)])
          [] c.pc = "store" ->
               [call |-> [c EXCEPT !.pc = "return"],
                frame |-> IF <<a, b>> \in DOMAIN F.cell
                          THEN [F EXCEPT !.cell[<<a, b>>] = c.value] ELSE F]
          [] c.pc = "return" ->
               same(IF <<a, b>> \notin DOMAIN F.cell THEN raises_("KeyError")
                    ELSE [c EXCEPT !.pc = "returned", !.ret = F.cell[<<a, b>>]])
          [] OTHER -> same(c)

\* ---------------------------------------------------------------- persistence
\* to_csv(sep='\t', na_rep="N/A", index=False): a header line of the column
\* labels, then one line per row of the index, in order, without the row's
\* label; a nan cell is written as the token N/A, a number as its repr.
na_rep == "N/A"
format(v) ==
    IF isnan(v) THEN [text |-> na_rep, float |-> NoValue]
    ELSE [text |-> "repr", float |-> v]

to_csv(F) ==
    [header |-> F.columns,
     rows |-> [i \in 1..Len(F.index) |->
                  [j \in 1..Len(F.columns) |-> format(F.cell[<<F.columns[j], F.index[i]>>])]]]

\* read_csv: the tokens pandas reads as missing become nan.
na_values == {"", "#N/A", "N/A", "NA", "NULL", "NaN", "nan", "null"}
parse(t) == IF t.text \in na_values THEN NaN ELSE t.float

\* PwMatrix.save: the dataframe to the matrix file, the sample map beside it.
save(F) == [exists |-> TRUE, csv |-> to_csv(F), sample_map |-> F.sample_map]

\* PwMatrix.load(config): read the table; dataframe['id'] = dataframe.keys() puts the
\* column labels into a column named id (replacing a column of that name, and
\* failing when there are not as many rows as labels); set_index('id') makes
\* that column the index and drops it from the columns.
load(f, config) ==
    LET keys == f.csv.header
        columns1 == SelectSeq(keys, LAMBDA k : k # "id")
    IN  IF Len(f.csv.rows) # Len(keys)
        THEN [columns |-> keys, index |-> <<>>, cell |-> <<>>,
              sample_map |-> f.sample_map, config |-> config, ok |-> FALSE]
        ELSE [columns |-> columns1,
              index |-> keys,
              cell |-> [p \in ToSet(columns1) \X ToSet(keys) |->
                           parse(f.csv.rows[IndexOf(keys, p[2])][IndexOf(keys, p[1])])],
              sample_map |-> f.sample_map,
              config |-> config,
              ok |-> TRUE]

\* ---------------------------------------------------------------- Individual
\* Gene values are integers from 0 (falsy) up; a chromosome is a tuple of them.
Genes == 0..MaxGene
Chromosomes == UNION {[1..l -> Genes] : l \in 1..MaxLen}

\* Probabilities in percent: a mutation rate of 0.0, 0.5 or 1.0.
MutationRates == {0, 50, 100}

Individual(mutation_rate, chromosome) ==
    [mutation_rate |-> mutation_rate, chromosome |-> chromosome]
Individuals == {Individual(r, c) : r \in MutationRates, c \in Chromosomes}
NoIndividual == Individual(0, <<>>)

\* np.random.binomial(1, p, n): the masks of n bits it can return.
binomial(p, n) ==
    IF p = 0 THEN {[i \in 1..n |-> 0]}
    ELSE IF p = 100 THEN {[i \in 1..n |-> 1]}
    ELSE [1..n -> {0, 1}]

\* Individual._mutate with the mask drawn and generated[i] what the gene's
\* generator returns for it: a masked gene is replaced, the others are kept.
mutate(chromosome, mutation_mask, generated) ==
    [i \in 1..Len(chromosome) |->
        IF mutation_mask[i] = 1 THEN generated[i] ELSE chromosome[i]]

\* Individual.replicate: the chromosomes it can return.
replicate(indiv) ==
    {mutate(indiv.chromosome, m, g) :
        m \in binomial(indiv.mutation_rate, Len(indiv.chromosome)),
        g \in [1..Len(indiv.chromosome) -> Genes]}

\* Individual._crossover with the choice mask drawn.  The triples come from
\* zip(choice_mask, chr1, chr2) and are unpacked as (a, b, ch): a is the mask
\* bit, b the gene of chr1 and ch the gene of chr2, so "a if ch else b" is the
\* mask bit where the gene of chr2 is truthy and the gene of chr1 elsewhere.
crossover_truncating(chr1, chr2, choice_mask) ==
    LET n == IF Len(chr1) < Len(chr2) THEN Len(chr1) ELSE Len(chr2)
    IN  [raised |-> "none",
         chromosome |-> [i \in 1..n |->
                            IF chr2[i] # 0 THEN choice_mask[i] ELSE chr1[i]]]

crossover(chr1, chr2, choice_mask) ==
    IF Len(chr1) # Len(chr2)
    THEN [raised |-> "ValueError", chromosome |-> <<>>]
    ELSE [raised |-> "none",
          chromosome |-> [i \in 1..Len(chr1) |->
                             IF chr2[i] # 0 THEN choice_mask[i] ELSE chr1[i]]]

\* Individual.mate: replicate both, cross the replicas over, and construct the
\* offspring with the mutation rate of self and the crossed chromosome.  The
\* results it can have, each with the two replicas it was made from.
mate(indiv1, indiv2) ==
    {LET crossed == crossover(r1, r2, choice_mask)
     IN  [op |-> "mate",
          raised |-> crossed.raised,
          replica1 |-> r1,
          replica2 |-> r2,
          individual |-> IF crossed.raised = "none"
                         THEN Individual(indiv1.mutation_rate, crossed.chromosome)
                         ELSE NoIndividual] :
        r1 \in replicate(indiv1),
        r2 \in replicate(indiv2),
        choice_mask \in binomial(50, Len(indiv1.chromosome))}

\* ---------------------------------------------------------------- Population
\* A number an argument can be: an int, or a float with an integral value.
Integer(n) == [type |-> "int", value |-> n]
Real(n) == [type |-> "float", value |-> n]
is_positive_int(v) == v.type = "int" /\ v.value > 0

modes == {"maximize", "minimize"}

\* The fitness functions a Population is tried with: the sum of the genes; one
\* that returns None; one that returns objects with no ordering between them;
\* one that raises TypeError when called on an Individual.
FitnessFunctions == {"sum", "null", "uncomparable", "raises"}

RECURSIVE gene_sum(_)
gene_sum(chromosome) ==
    IF chromosome = <<>> THEN 0 ELSE Head(chromosome) + gene_sum(Tail(chromosome))

evaluate(fitness_function, indiv) ==
    CASE fitness_function = "sum" -> [kind |-> "int", value |-> gene_sum(indiv.chromosome)]
      [] fitness_function = "null" -> [kind |-> "None", value |-> 0]
      [] fitness_function = "uncomparable" -> [kind |-> "object", value |-> 0]
      [] OTHER -> [kind |-> "TypeError", value |-> 0]

\* A (fitness, individual) tuple; id is the identity of the tuple object.
Evaluated(id, fit, indiv) == [id |-> id, fitness |-> fit, indiv |-> indiv]

\* An Individual held by a Population: obj is the identity of the Individual
\* object, so that one object can stand at several places of a list.
Object(obj, indiv) ==
    [obj |-> obj, mutation_rate |-> indiv.mutation_rate, chromosome |-> indiv.chromosome]

NoPopulation ==
    [raised |-> "none", created |-> FALSE, maximize |-> FALSE, size |-> 0,
     n_legends |-> 0, fitness_function |-> "", evaluated_ancestors |-> <<>>,
     legends |-> <<>>, legends_list |-> 0, ntuples |-> 0]

\* Population.__init__ without the check of n_legends.
Population_any_capacity(ancestors, size, fitness_function, mode, n_legends) ==
    IF \/ mode \notin modes
       \/ ~is_positive_int(size)
       \/ ancestors = <<>>
       \/ Len(ancestors) < size.value
       \/ evaluate(fitness_function, ancestors[1]).kind \in {"None", "TypeError"}
    THEN [raised |-> "ValueError", created |-> FALSE, maximize |-> FALSE, size |-> 0,
          n_legends |-> 0, fitness_function |-> "", evaluated_ancestors |-> <<>>,
          legends |-> <<>>, legends_list |-> 0, ntuples |-> 0]
    ELSE [raised |-> "none",
          created |-> TRUE,
          maximize |-> (mode = "maximize"),
          size |-> size.value,
          n_legends |-> n_legends.value,
          fitness_function |-> fitness_function,
          evaluated_ancestors |->
              [i \in 1..Len(ancestors) |->
                  [id |-> i, fitness |-> evaluate(fitness_function, ancestors[i]),
                   indiv |-> ancestors[i]]],
          legends |-> <<>>,
          legends_list |-> 0,
          ntuples |-> Len(ancestors)]

\* Population.__init__: the object it leaves, or the error it raises.  Only
\* the fitness of ancestors[0] is looked at; a TypeError of that call is
\* turned into ValueError.  ntuples counts the tuples made so far, and
\* legends_list is the identity of the list bound to _legends, 0 for the
\* empty list of the constructor.
Population(ancestors, size, fitness_function, mode, n_legends) ==
    IF \/ mode \notin modes
       \/ ~is_positive_int(size)
       \/ ancestors = <<>>
       \/ Len(ancestors) < size.value
       \/ ~is_positive_int(n_legends)
       \/ evaluate(fitness_function, ancestors[1]).kind \in {"None", "TypeError"}
    THEN [NoPopulation EXCEPT !.raised = "ValueError"]
    ELSE [raised |-> "none",
          created |-> TRUE,
          maximize |-> (mode = "maximize"),
          size |-> size.value,
          n_legends |-> n_legends.value,
          fitness_function |-> fitness_function,
          evaluated_ancestors |->
              [i \in 1..Len(ancestors) |->
                  Evaluated(i, evaluate(fitness_function, ancestors[i]), ancestors[i])],
          legends |-> <<>>,
          legends_list |-> 0,
          ntuples |-> Len(ancestors)]

\* list[:n]
take(list, n) == SubSeq(list, 1, IF n < Len(list) THEN n ELSE Len(list))
\* list[n:]
drop(list, n) == SubSeq(list, n + 1, Len(list))

\* sorted(list, key=fitness, reverse=reverse): stable, so entries of equal
\* fitness keep their order, also when reversed; comparing two fitness values
\* that are not numbers raises TypeError.
ahead(a, b, reverse) ==
    IF reverse THEN a.fitness.value > b.fitness.value
    ELSE a.fitness.value < b.fitness.value

RECURSIVE insert(_, _, _)
insert(ranked, e, reverse) ==
    IF ranked = <<>> THEN <<e>>
    ELSE IF ahead(e, Head(ranked), reverse) THEN <<e>> \o ranked
    ELSE <<Head(ranked)>> \o insert(Tail(ranked), e, reverse)

RECURSIVE ranking(_, _)
ranking(list, reverse) ==
    IF list = <<>> THEN <<>>
    ELSE insert(ranking(SubSeq(list, 1, Len(list) - 1), reverse), list[Len(list)], reverse)

sorted(list, reverse) ==
    IF Len(list) >= 2 /\ \E i \in 1..Len(list) : list[i].fitness.kind # "int"
    THEN [raised |-> "TypeError", list |-> <<>>]
    ELSE [raised |-> "none", list |-> ranking(list, reverse)]

\* random.sample(list, k): k entries at distinct positions, in any order.
sample(list, k) ==
    {[i \in 1..k |-> list[f[i]]] :
        f \in {g \in [1..k -> 1..Len(list)] : \A i, j \in 1..k : i # j => g[i] # g[j]}}

\* random_pairs(sequence, n) on a sequence of m entries.  With n = 0 the loop
\* is not entered.  Otherwise random.sample(indices, 2) raises ValueError when
\* there are fewer than two indices, and the loop ends only when exactly n
\* pairs, no two of them the same unordered pair, have been drawn: never when
\* n is negative or exceeds the number of unordered pairs.  The pairs are
\* yielded in the iteration order of a set, taken here as any order.
pairings(m, n) ==
    {s \in [1..n -> {q \in (1..m) \X (1..m) : q[1] # q[2]}] :
        \A a, b \in 1..n : a # b => {s[a][1], s[a][2]} # {s[b][1], s[b][2]}}

random_pairs(m, n) ==
    IF n = 0 THEN [raised |-> "none", hangs |-> FALSE, pairs |-> {<<>>}]
    ELSE IF m < 2 THEN [raised |-> "ValueError", hangs |-> FALSE, pairs |-> {}]
    ELSE IF n < 0 \/ 2 * n > m * (m - 1)
         THEN [raised |-> "none", hangs |-> TRUE, pairs |-> {}]
    ELSE [raised |-> "none", hangs |-> FALSE, pairs |-> pairings(m, n)]

\* map(indiv1.mate(indiv2)) over the pairs: the results it can have, pair by pair.
RECURSIVE matings(_, _)
matings(individuals, pairs) ==
    IF pairs = <<>> THEN {<<>>}
    ELSE {<<born>> \o rest :
            born \in mate(individuals[Head(pairs)[1]], individuals[Head(pairs)[2]]),
            rest \in matings(individuals, Tail(pairs))}

\* Population._repopulate and _mate_and_evaluate: n_pairs offsprings, each a
\* new Individual in a new tuple, followed by the evaluated ancestors
\* themselves; mating_pairs are the pairs of positions random_pairs handed
\* over, none when it did not return.
repopulate(p, evaluated_ancestors) ==
    LET individuals == [i \in 1..Len(evaluated_ancestors) |-> evaluated_ancestors[i].indiv]
        n_pairs == p.size - Len(evaluated_ancestors)
        mating_pairs == random_pairs(Len(individuals), n_pairs)
        stopped(raised, hangs, pairs) ==
            [raised |-> raised, hangs |-> hangs, mating_pairs |-> pairs,
             population |-> <<>>, ntuples |-> p.ntuples]
    IN  IF mating_pairs.raised # "none" \/ mating_pairs.hangs
        THEN {stopped(mating_pairs.raised, mating_pairs.hangs, <<>>)}
        ELSE UNION {
               {IF \E k \in 1..n_pairs : born[k].raised # "none"
                THEN stopped("ValueError", FALSE, pairs)
                ELSE [raised |-> "none",
                      hangs |-> FALSE,
                      mating_pairs |-> pairs,
                      population |->
                          [k \in 1..n_pairs |->
                              Evaluated(p.ntuples + k,
                                        evaluate(p.fitness_function, born[k].individual),
                                        Object(p.ntuples + k, born[k].individual))]
                          \o evaluated_ancestors,
                      ntuples |-> p.ntuples + n_pairs] :
                  born \in matings(individuals, pairs)} :
               pairs \in mating_pairs.pairs}

\* Population._select: the n_fittest first of the ranking, then
\* n_random_unfit sampled from the rest of it.
select_fittest_only(evaluated_population, n_fittest, n_random_unfit, reverse) ==
    LET ranked_pop == sorted(evaluated_population, reverse)
    IN  {[raised |-> ranked_pop.raised, selected |-> take(ranked_pop.list, n_fittest)]}

\* _select sampling the random survivors from the whole ranking.
select_unfit_from_all(evaluated_population, n_fittest, n_random_unfit, reverse) ==
    LET ranked_pop == sorted(evaluated_population, reverse)
    IN  IF ranked_pop.raised # "none"
        THEN {[raised |-> ranked_pop.raised, selected |-> <<>>]}
        ELSE IF n_random_unfit > Len(ranked_pop.list)
        THEN {[raised |-> "ValueError", selected |-> <<>>]}
        ELSE {[raised |-> "none", selected |-> take(ranked_pop.list, n_fittest) \o unfit] :
                unfit \in sample(ranked_pop.list, n_random_unfit)}

select(evaluated_population, n_fittest, n_random_unfit, reverse) ==
    LET ranked_pop == sorted(evaluated_population, reverse)
        rest == IF n_fittest < Len(ranked_pop.list) THEN drop(ranked_pop.list, n_fittest) ELSE <<>>
    IN  IF ranked_pop.raised # "none"
        THEN {[raised |-> ranked_pop.raised, selected |-> <<>>]}
        ELSE IF n_random_unfit > Len(rest)
        THEN {[raised |-> "ValueError", selected |-> <<>>]}
        ELSE {[raised |-> "none", selected |-> take(ranked_pop.list, n_fittest) \o unfit] :
                unfit \in sample(rest, n_random_unfit)}

\* Population._filter_duplicates_by_id: a dict keyed by id(obj), so one entry
\* for each tuple object, in the order of first occurrence.
RECURSIVE filter_duplicates_by_id(_)
filter_duplicates_by_id(objects) ==
    IF objects = <<>> THEN <<>>
    ELSE LET front == filter_duplicates_by_id(SubSeq(objects, 1, Len(objects) - 1))
             obj == objects[Len(objects)]
         IN  IF \E i \in 1..Len(front) : front[i].id = obj.id THEN front
             ELSE Append(front, obj)

\* Population._update_legends: the contenders and the legends so far, without
\* duplicates, ranked again and cut to n_legends.  The slice of sorted() is a
\* new list, and _legends is bound to it (rebinds) instead of being changed
\* in place.
update_legends_contenders_only(contenders, legends, reverse, n_legends) ==
    LET ranked == sorted(filter_duplicates_by_id(contenders), reverse)
    IN  [raised |-> ranked.raised, rebinds |-> TRUE, legends |-> take(ranked.list, n_legends)]

\* _update_legends changing the list bound to _legends in place.
update_legends_in_place(contenders, legends, reverse, n_legends) ==
    LET ranked == sorted(filter_duplicates_by_id(contenders \o legends), reverse)
    IN  [raised |-> ranked.raised, rebinds |-> FALSE, legends |-> take(ranked.list, n_legends)]

update_legends(contenders, legends, reverse, n_legends) ==
    LET ranked == sorted(filter_duplicates_by_id(contenders \o legends), reverse)
    IN  [raised |-> ranked.raised, rebinds |-> TRUE, legends |-> take(ranked.list, n_legends)]

\* Population._run_generation: what it returns and leaves in the Population,
\* or how it stops, with the pairs it drew, the population it evaluated and
\* the selection it made on the way.
run_generation(p, evaluated_ancestors, n_fittest, n_unfit) ==
    LET stopped(raised, hangs) ==
            [raised |-> raised, hangs |-> hangs, repopulated |-> FALSE,
             mating_pairs |-> <<>>, evaluated_population |-> <<>>,
             selected |-> <<>>, population |-> p]
    IN  UNION {
          IF grown.raised # "none" \/ grown.hangs
          THEN {[stopped(grown.raised, grown.hangs) EXCEPT
                     !.mating_pairs = grown.mating_pairs]}
          ELSE {IF chosen.raised # "none"
                THEN [stopped(chosen.raised, FALSE) EXCEPT
                          !.repopulated = TRUE,
                          !.mating_pairs = grown.mating_pairs,
                          !.evaluated_population = grown.population]
                ELSE LET updated == update_legends(take(chosen.selected, p.n_legends),
                                                   p.legends, p.maximize, p.n_legends)
                     IN  [raised |-> updated.raised,
                          hangs |-> FALSE,
                          repopulated |-> TRUE,
                          mating_pairs |-> grown.mating_pairs,
                          evaluated_population |-> grown.population,
                          selected |-> chosen.selected,
                          population |->
                              IF updated.raised # "none" THEN p
                              ELSE [p EXCEPT !.legends = updated.legends,
                                             !.legends_list =
                                                 IF updated.rebinds THEN @ + 1 ELSE @,
                                             !.ntuples = grown.ntuples]] :
                  chosen \in select(grown.population, n_fittest, n_unfit, p.maximize)} :
          grown \in repopulate(p, evaluated_ancestors)}

\* What a Population is constructed with and evolve is called with.
NoArgs ==
    [ancestors |-> <<>>, size |-> Integer(0), fitness_function |-> "", mode |-> "",
     n_legends |-> Integer(0), n_gen |-> 0, n_fittest |-> 0, n_random_unfit |-> 0]

\* The generator evolve returns: "created" before the first next(),
\* "suspended" at its yield, "exhausted" after the last generation, "raised"
\* when an exception left it, "hung" inside a loop that cannot end.
NoGenerator == [pc |-> "none", raised |-> "none"]

\* The steps of one call of _run_generation: the list it was given, whether
\* _repopulate returned, the pairs it drew, the evaluated population and the
\* selection made from it; evaluated gathers the offspring tuples of every
\* generation so far.
NoGeneration ==
    [ran |-> FALSE, repopulated |-> FALSE, evaluated_ancestors |-> <<>>,
     mating_pairs |-> <<>>, evaluated_population |-> <<>>, selected |-> <<>>,
     evaluated |-> {}]

\* ---------------------------------------------------------------- objective function
\* A matrix is the list of its rows; rows, columns and the landmark indices
\* are counted from 0 as numpy counts them.
Distances == 0..MaxDist
Matrices == UNION {[1..n -> [1..n -> Distances]] : n \in 1..MaxN}

\* The entries of a list at the 0-based positions from pos on that idx lacks.
RECURSIVE without(_, _, _)
without(list, idx, pos) ==
    IF pos >= Len(list) THEN <<>>
    ELSE IF pos \in idx THEN without(list, idx, pos + 1)
    ELSE <<list[pos + 1]>> \o without(list, idx, pos + 1)

\* np.delete(matrix, idx, axis): axis 0 drops the rows at idx, axis 1 the columns.
delete(matrix, idx, axis) ==
    IF axis = 0 THEN without(matrix, idx, 0)
    ELSE [i \in 1..Len(matrix) |-> without(matrix[i], idx, 0)]

\* choose(dmatrix, keys, keys_idx), keys being the len(dmatrix) labels: the
\* columns outside keys_idx are deleted, then the rows at keys_idx.
choose(matrix, idx) ==
    LET outer_ix == (0..(Len(matrix) - 1)) \ idx
    IN  delete(delete(matrix, outer_ix, 1), idx, 0)

\* ---------------------------------------------------------------- command line
\* The configuration: the keys that are set and the values of the two the
\* commands use.  A value is kept as it was assigned, and what one command
\* saves the next one loads.
NoConfig == [keys |-> {}, current_index |-> "", built |-> ""]
has(cfg, key) == key \in cfg.keys
set_current_index(cfg, name) ==
    [cfg EXCEPT !.keys = @ \cup {"current_index"}, !.current_index = name]
set_built(cfg, value) ==
    [cfg EXCEPT !.keys = @ \cup {"built"}, !.built = value]

\* bool(value) of a str: every string but the empty one is true.
truth(value) == value # ""

IndexNames == {"x", "y"}
NoDisk == [exists |-> {}, built |-> {}]

\* _index_check and _build_check: the error raised, "" when there is none.
\* Reading config.built before any command has set it finds no such key.
index_check(cfg) ==
    IF ~has(cfg, "current_index") THEN "There is no index created" ELSE ""
build_check(cfg) ==
    IF ~has(cfg, "built") THEN "AttributeError"
    ELSE IF ~truth(cfg.built) THEN "First you have to build the index"
    ELSE ""

\* ---------------------------------------------------------------- state
VARIABLES
    phase,    \* "none": no PwMatrix yet; "ready"; "failed": an exception escaped
    pw,       \* the PwMatrix object
    calls,    \* calls[<<a, b>>]: evaluations of the metric on (a, b) so far
    initial,  \* the samples create was given
    last,     \* the last operation, its arguments and what it returned
    nops,     \* operations since create
    file,     \* the persisted matrix file and sample map
    hx, hy,   \* the two frequency maps handed to a metric
    mres,     \* the metric called on them and its result
    mating,   \* the two Individuals mate is called on: <<self, other>>
    offspring,          \* what mate did: its replicated chromosomes and result
    population,         \* the Population object, or what its construction raised
    args,               \* the arguments the constructor and evolve were given
    generator,          \* the evolve generator: where it stands and what it raised
    current_generation, \* evolve's current_generation
    yielded,            \* the legend snapshots evolve has yielded, in order
    held,               \* the identity of the list each snapshot is
    generation,         \* the steps of the last generation run, and every tuple evaluated
    dmatrix,            \* the distance matrix handed to the objective function
    keys_idx,           \* the landmark indices handed to it
    dmx,                \* the matrix choose returned for them
    config,             \* the configuration the command line loads and saves
    disk,               \* the index directories that exist and those a build filled
    shell,              \* the commands run so far and what the last one did
    race,               \* the cell two concurrent calls of __getitem__ are after
    threads             \* where each of the two calls stands, and its locals

vars == <<phase, pw, calls, initial, last, nops, file, hx, hy, mres,
          mating, offspring, population, args, generator, current_generation, yielded,
          held, generation,
          dmatrix, keys_idx, dmx, config, disk, shell, race, threads>>
cacheVars == <<phase, pw, calls, initial, last, nops, file>>
metricVars == <<hx, hy, mres>>
mateVars == <<mating, offspring>>
gaVars == <<population, args, generator, current_generation, yielded, held, generation>>
objVars == <<dmatrix, keys_idx, dmx>>
cliVars == <<config, disk, shell>>
raceVars == <<race, threads>>

NoFrame ==
    [columns |-> <<>>, index |-> <<>>, cell |-> <<>>, sample_map |-> {},
     config |-> [func |-> "", kmer_size |-> 0], ok |-> TRUE]
NoFile == [exists |-> FALSE, csv |-> [header |-> <<>>, rows |-> <<>>], sample_map |-> {}]
Op(op, a, b, ret, evaluated) == [op |-> op, a |-> a, b |-> b, ret |-> ret, evaluated |-> evaluated]

\* The sample maps create is tried on: up to MaxInit distinct samples, in order.
SampleMaps ==
    {s \in UNION {[1..k -> Samples] : k \in 0..MaxInit} :
        \A i, j \in 1..Len(s) : i # j => s[i] # s[j]}

InitCache ==
    /\ phase = "none"
    /\ pw = NoFrame
    /\ calls = [p \in Samples \X Samples |-> 0]
    /\ initial = {}
    /\ last = Op("none", "", "", NoValue, FALSE)
    /\ nops = 0
    /\ file = NoFile

NotMated == [op |-> "none", raised |-> "none", replica1 |-> <<>>, replica2 |-> <<>>,
             individual |-> NoIndividual]

NoMetric ==
    /\ hx = <<>> /\ hy = <<>>
    /\ mres = [op |-> "none", value |-> NoValue]

NoMate ==
    /\ mating = <<NoIndividual, NoIndividual>>
    /\ offspring = NotMated

NoGA ==
    /\ population = NoPopulation
    /\ args = NoArgs
    /\ generator = NoGenerator
    /\ current_generation = <<>>
    /\ yielded = <<>>
    /\ held = <<>>
    /\ generation = NoGeneration

\* A call of __getitem__ that has not begun: pc is the statement it is at, x
\* the sample of the pair its loop is at, initvalues the length of that local
\* list, value and ret what it computed and returned, raised the exception
\* that left it.
NoCall ==
    [pc |-> "none", x |-> 0, initvalues |-> 0, value |-> NoValue, ret |-> NoValue,
     raised |-> "none"]

NoRace ==
    /\ race = [racing |-> FALSE, a |-> "", b |-> "", before |-> NoFrame]
    /\ threads = [t \in Threads |-> NoCall]

NotChosen == <<<<(0 - 1)>>>>

NoObjective ==
    /\ dmatrix = <<>>
    /\ keys_idx = {}
    /\ dmx = NotChosen

NoShell == [ncmds |-> 0, command |-> "", outcome |-> ""]

NoCLI ==
    /\ config = NoConfig
    /\ disk = NoDisk
    /\ shell = NoShell

Init ==
    /\ InitCache
    /\ NoMetric
    /\ NoMate
    /\ NoGA
    /\ NoObjective
    /\ NoCLI
    /\ NoRace

\* PwMatrix.create(config, sample_map).
Create ==
    /\ phase = "none"
    /\ \E samples \in SampleMaps, config_ \in Configs :
        LET made == create(config_, samples)
        IN  /\ phase' = IF made.ok THEN "ready" ELSE "failed"
            /\ pw' = IF made.ok THEN made ELSE pw
            /\ calls' = [p \in Samples \X Samples |->
                            IF p \in starmap(config_, samples).evaluated
                            THEN calls[p] + 1 ELSE calls[p]]
            /\ initial' = ToSet(samples)
            /\ last' = Op("create", "", "", NoValue, FALSE)
    /\ UNCHANGED <<nops, file, metricVars, mateVars, gaVars, objVars, cliVars, raceVars>>

\* pwcomp.pwmatrix(func, data) on the k-mer indices of some samples.
Pwmatrix ==
    /\ phase = "none"
    /\ \E samples \in SampleMaps, config_ \in Configs :
        \E r \in pwmatrix(config_, samples) :
            /\ phase' = "failed"
            /\ calls' = [p \in Samples \X Samples |->
                            IF p \in r.evaluated THEN calls[p] + 1 ELSE calls[p]]
            /\ initial' = ToSet(samples)
            /\ last' = Op("pwmatrix", "", "", NoValue, FALSE)
    /\ UNCHANGED <<pw, nops, file, metricVars, mateVars, gaVars, objVars, cliVars, raceVars>>

AddSample ==
    /\ phase = "ready"
    /\ nops < MaxOps
    /\ \E s \in Samples :
        /\ pw' = add_sample(pw, s)
        /\ phase' = IF pw'.ok THEN "ready" ELSE "failed"
        /\ last' = Op("add_sample", s, "", NoValue, FALSE)
    /\ nops' = nops + 1
    /\ UNCHANGED <<calls, initial, file, metricVars, mateVars, gaVars, objVars, cliVars, raceVars>>

Get ==
    /\ phase = "ready"
    /\ nops < MaxOps
    /\ \E a, b \in Samples :
        LET r == getitem(pw, a, b)
        IN  /\ pw' = r.frame
            /\ phase' = IF r.frame.ok THEN "ready" ELSE "failed"
            /\ calls' = IF r.evaluated THEN [calls EXCEPT ![<<a, b>>] = @ + 1] ELSE calls
            /\ last' = Op("get", a, b, r.ret, r.evaluated)
    /\ nops' = nops + 1
    /\ UNCHANGED <<initial, file, metricVars, mateVars, gaVars, objVars, cliVars, raceVars>>

Save ==
    /\ phase = "ready"
    /\ nops < MaxOps
    /\ file' = save(pw)
    /\ last' = Op("save", "", "", NoValue, FALSE)
    /\ nops' = nops + 1
    /\ UNCHANGED <<phase, pw, calls, initial, metricVars, mateVars, gaVars, objVars, cliVars, raceVars>>

Load ==
    /\ phase = "ready"
    /\ file.exists
    /\ nops < MaxOps
    /\ pw' = load(file, pw.config)
    /\ phase' = IF pw'.ok THEN "ready" ELSE "failed"
    /\ last' = Op("load", "", "", NoValue, FALSE)
    /\ nops' = nops + 1
    /\ UNCHANGED <<calls, initial, file, metricVars, mateVars, gaVars, objVars, cliVars, raceVars>>

\* The cache of one build: create, then add_sample and get in any order.
Next == Create \/ Pwmatrix \/ AddSample \/ Get
Spec == Init /\ [][Next]_vars

\* The cache with its file: save and load between the other operations.
NextPersist == Create \/ AddSample \/ Get \/ Save \/ Load
SpecPersist == Init /\ [][NextPersist]_vars

\* Two calls of __getitem__ on the same pair, begun together on a cache whose
\* cell for the pair is missing: one of the samples is no label yet, or the
\* cell is nan.  The pair of calls counts among the MaxOps operations.
Quiet == ~race.racing

Race ==
    /\ Quiet
    /\ phase = "ready"
    /\ nops < MaxOps
    /\ nops' = nops + 1
    /\ \E a, b \in Samples :
        /\ <<a, b>> \in DOMAIN pw.cell => isnan(pw.cell[<<a, b>>])
        /\ race' = [racing |-> TRUE, a |-> a, b |-> b, before |-> pw]
        /\ threads' = [t \in Threads |-> [NoCall EXCEPT !.pc = "check", !.x = 1]]
    /\ UNCHANGED <<phase, pw, calls, initial, last, file,
                   metricVars, mateVars, gaVars, objVars, cliVars>>

\* The next step of one of the two calls; the metric is counted where it is
\* evaluated, and an exception that leaves a call leaves the cache failed.
Step ==
    /\ race.racing
    /\ \E t \in Threads :
        /\ threads[t].pc \notin {"returned", "raised"}
        /\ LET r == step(pw, threads[t], race.a, race.b)
           IN  /\ threads' = [threads EXCEPT ![t] = r.call]
               /\ pw' = IF r.call.pc = "raised" THEN [r.frame EXCEPT !.ok = FALSE]
                         ELSE r.frame
               /\ phase' = IF r.call.pc = "raised" THEN "failed" ELSE phase
               /\ calls' = IF threads[t].pc = "distfunc"
                            THEN [calls EXCEPT ![<<race.a, race.b>>] = @ + 1] ELSE calls
    /\ UNCHANGED <<initial, last, nops, file, race,
                   metricVars, mateVars, gaVars, objVars, cliVars>>

NextRace == (Quiet /\ (Create \/ AddSample \/ Get)) \/ Race \/ Step
SpecRace == Init /\ [][NextRace]_vars

\* The metrics on their own: any two frequency maps, then one call.
InitMetric ==
    /\ InitCache
    /\ hx \in Maps /\ hy \in Maps
    /\ mres = [op |-> "none", value |-> NoValue]
    /\ NoMate
    /\ NoGA
    /\ NoObjective
    /\ NoCLI
    /\ NoRace

Jaccard ==
    /\ mres.op = "none"
    /\ mres' = [op |-> "jaccard", value |-> jaccard(hx, hy)]
    /\ UNCHANGED <<hx, hy, cacheVars, mateVars, gaVars, objVars, cliVars, raceVars>>

JensenShannon ==
    /\ mres.op = "none"
    /\ LET r == JSD(hx, hy)
       IN  /\ hx' = r.hx
           /\ hy' = r.hy
           /\ mres' = [op |-> "JSD", value |-> r.value]
    /\ UNCHANGED <<cacheVars, mateVars, gaVars, objVars, cliVars, raceVars>>

NextMetric == Jaccard \/ JensenShannon
SpecMetric == InitMetric /\ [][NextMetric]_vars

\* ---------------------------------------------------------------- mating
\* Two Individuals, then one call of mate.
InitMate ==
    /\ InitCache
    /\ NoMetric
    /\ NoGA
    /\ NoObjective
    /\ NoCLI
    /\ mating \in Individuals \X Individuals
    /\ offspring = NotMated
    /\ NoRace

Mate ==
    /\ offspring.op = "none"
    /\ offspring' \in mate(mating[1], mating[2])
    /\ UNCHANGED <<mating, cacheVars, metricVars, gaVars, objVars, cliVars, raceVars>>

NextMate == Mate
SpecMate == InitMate /\ [][NextMate]_vars

\* ---------------------------------------------------------------- evolution
\* The ancestors a Population is tried with: up to MaxAncestors Individuals of
\* one chromosome length and one mutation rate (none at all included), the
\* same Individual object being allowed at several positions.
Ancestries ==
    UNION {[1..n -> {Individual(r, c) : c \in [1..l -> Genes]}] :
             n \in 0..MaxAncestors, l \in 1..MaxLen, r \in MutationRates}

\* The ways the entries of a list can be one and the same object: each entry
\* is given the first position its object stands at, which holds an equal value.
Aliasings(lineup) ==
    {o \in [1..Len(lineup) -> 1..Len(lineup)] :
        \A i \in 1..Len(lineup) :
            o[i] <= i /\ o[o[i]] = o[i] /\ lineup[o[i]] = lineup[i]}

\* The list of Individual objects a lineup is under an aliasing.
Objects(lineup, o) == [i \in 1..Len(lineup) |-> Object(o[i], lineup[i])]
Modes == modes \cup {"max"}
Sizes == {Integer(n) : n \in (0 - 1)..MaxSize} \cup {Real(1)}
Capacities == {Integer(n) : n \in 0..MaxLegends} \cup {Real(1)}

\* Population(ancestors, size, fitness_function, mode, n_legends)
Construct ==
    /\ ~population.created /\ population.raised = "none"
    /\ \E lineup \in Ancestries, size \in Sizes, fitness_function \in FitnessFunctions,
          mode \in Modes, n_legends \in Capacities :
      \E o \in Aliasings(lineup) :
        LET ancestors == Objects(lineup, o) IN
        /\ population' = Population(ancestors, size, fitness_function, mode, n_legends)
        /\ args' = [args EXCEPT !.ancestors = ancestors, !.size = size,
                                !.fitness_function = fitness_function,
                                !.mode = mode, !.n_legends = n_legends]
    /\ UNCHANGED <<generator, current_generation, yielded, held, generation,
                   cacheVars, metricVars, mateVars, objVars, cliVars, raceVars>>

\* population.evolve(n_gen, n_fittest, n_random_unfit): a generator function,
\* so the call only makes the generator; no line of the body has run yet.
Evolve ==
    /\ population.created
    /\ generator.pc = "none"
    /\ \E n_gen \in 0..MaxGen, n_fittest \in (0 - 1)..MaxSize, n_random_unfit \in (0 - 1)..MaxSize :
        args' = [args EXCEPT !.n_gen = n_gen, !.n_fittest = n_fittest,
                             !.n_random_unfit = n_random_unfit]
    /\ generator' = [pc |-> "created", raised |-> "none"]
    /\ UNCHANGED <<population, current_generation, yielded, held, generation,
                   cacheVars, metricVars, mateVars, objVars, cliVars, raceVars>>

\* next(generator).  The first one checks the arguments; each one runs a
\* generation up to the yield, or leaves the loop when n_gen generations are
\* done.  What is yielded is the list bound to _legends itself, so a snapshot
\* the caller holds shows whatever is later done to that list.
Pull ==
    /\ generator.pc \in {"created", "suspended"}
    /\ LET starting == generator.pc = "created"
           current == IF starting THEN population.evaluated_ancestors ELSE current_generation
       IN  IF starting /\ (\/ args.n_fittest < 0
                           \/ args.n_random_unfit < 0
                           \/ args.n_fittest + args.n_random_unfit > population.size)
           THEN /\ generator' = [pc |-> "raised", raised |-> "ValueError"]
                /\ UNCHANGED <<population, current_generation, yielded, held, generation>>
           ELSE IF Len(yielded) >= args.n_gen
           THEN /\ generator' = [pc |-> "exhausted", raised |-> "none"]
                /\ current_generation' = current
                /\ UNCHANGED <<population, yielded, held, generation>>
           ELSE \E r \in run_generation(population, current, args.n_fittest, args.n_random_unfit) :
                /\ population' = r.population
                /\ generator' = IF r.hangs THEN [pc |-> "hung", raised |-> "none"]
                                ELSE IF r.raised # "none" THEN [pc |-> "raised", raised |-> r.raised]
                                ELSE [pc |-> "suspended", raised |-> "none"]
                /\ current_generation' = IF r.hangs \/ r.raised # "none" THEN current ELSE r.selected
                /\ yielded' = IF r.hangs \/ r.raised # "none" THEN yielded
                              ELSE Append([i \in 1..Len(yielded) |->
                                              IF held[i] = r.population.legends_list
                                              THEN r.population.legends ELSE yielded[i]],
                                          r.population.legends)
                /\ held' = IF r.hangs \/ r.raised # "none" THEN held
                           ELSE Append(held, r.population.legends_list)
                /\ generation' =
                       [ran |-> TRUE,
                        repopulated |-> r.repopulated,
                        evaluated_ancestors |-> current,
                        mating_pairs |-> r.mating_pairs,
                        evaluated_population |-> r.evaluated_population,
                        selected |-> r.selected,
                        evaluated |-> generation.evaluated \cup ToSet(r.evaluated_population)]
    /\ UNCHANGED <<args, cacheVars, metricVars, mateVars, objVars, cliVars, raceVars>>

NextGA == Construct \/ Evolve \/ Pull
SpecGA == Init /\ [][NextGA]_vars

\* ---------------------------------------------------------------- landmarks
\* A distance matrix and a set of landmark indices, then one call of the
\* objective function, which restricts the matrix with choose.
InitObjective ==
    /\ InitCache
    /\ NoMetric
    /\ NoMate
    /\ NoGA
    /\ NoCLI
    /\ dmatrix \in Matrices
    /\ keys_idx \in SUBSET (0..(Len(dmatrix) - 1))
    /\ dmx = NotChosen
    /\ NoRace

Choose ==
    /\ dmx = NotChosen
    /\ dmx' = choose(dmatrix, keys_idx)
    /\ UNCHANGED <<dmatrix, keys_idx, cacheVars, metricVars, mateVars, gaVars, cliVars, raceVars>>

NextObjective == Choose
SpecObjective == InitObjective /\ [][NextObjective]_vars

\* ---------------------------------------------------------------- commands
\* Each command is one run of the program: the configuration is loaded, the
\* command acts, and what it saved is what the next command loads.
Ran(command, outcome) ==
    [ncmds |-> shell.ncmds + 1, command |-> command, outcome |-> outcome]

\* mgns init NAME
CmdInit ==
    /\ shell.ncmds < MaxCmds
    /\ \E name \in IndexNames :
        /\ disk' = [disk EXCEPT !.exists = @ \cup {name}]
        /\ config' = set_built(set_current_index(config, name), "false")
    /\ shell' = Ran("init", "ok")
    /\ UNCHANGED <<cacheVars, metricVars, mateVars, gaVars, objVars, raceVars>>

\* mgns use NAME: a name that is no index is reported and selected all the same.
CmdUse ==
    /\ shell.ncmds < MaxCmds
    /\ \E name \in IndexNames :
        config' = set_current_index(config, name)
    /\ shell' = Ran("use", "ok")
    /\ UNCHANGED <<disk, cacheVars, metricVars, mateVars, gaVars, objVars, raceVars>>

\* mgns build FILES: the index is built and saved, or building raises.
CmdBuild ==
    /\ shell.ncmds < MaxCmds
    /\ IF index_check(config) # ""
       THEN /\ shell' = Ran("build", index_check(config))
            /\ UNCHANGED <<config, disk>>
       ELSE \E completed \in BOOLEAN :
            /\ shell' = Ran("build", IF completed THEN "ok" ELSE "failed")
            /\ disk' = IF completed
                       THEN [disk EXCEPT !.built = @ \cup {config.current_index}]
                       ELSE disk
            /\ config' = IF completed THEN set_built(config, "true") ELSE config
    /\ UNCHANGED <<cacheVars, metricVars, mateVars, gaVars, objVars, raceVars>>

\* mgns refine -c N: the index is loaded, refined and saved, or one of these
\* raises; what Index.load makes of an index that was never built is left open.
CmdRefine ==
    /\ shell.ncmds < MaxCmds
    /\ IF index_check(config) # ""
       THEN /\ shell' = Ran("refine", index_check(config))
            /\ UNCHANGED config
       ELSE \E completed \in BOOLEAN :
            /\ shell' = Ran("refine", IF completed THEN "ok" ELSE "failed")
            /\ config' = IF completed THEN set_built(config, "true") ELSE config
    /\ UNCHANGED <<disk, cacheVars, metricVars, mateVars, gaVars, objVars, raceVars>>

\* mgns add FILES
CmdAdd ==
    /\ shell.ncmds < MaxCmds
    /\ shell' = Ran("add", IF index_check(config) # "" THEN index_check(config) ELSE "loaded")
    /\ UNCHANGED <<config, disk, cacheVars, metricVars, mateVars, gaVars, objVars, raceVars>>

\* mgns stats
CmdStats ==
    /\ shell.ncmds < MaxCmds
    /\ shell' = Ran("stats", IF index_check(config) # "" THEN index_check(config) ELSE "loaded")
    /\ UNCHANGED <<config, disk, cacheVars, metricVars, mateVars, gaVars, objVars, raceVars>>

\* mgns find FILE -k K: after the two checks the index is loaded and queried.
CmdFind ==
    /\ shell.ncmds < MaxCmds
    /\ shell' = Ran("find", IF index_check(config) # "" THEN index_check(config)
                            ELSE IF build_check(config) # "" THEN build_check(config)
                            ELSE "queried")
    /\ UNCHANGED <<config, disk, cacheVars, metricVars, mateVars, gaVars, objVars, raceVars>>

NextCLI == CmdInit \/ CmdUse \/ CmdBuild \/ CmdRefine \/ CmdAdd \/ CmdStats \/ CmdFind
SpecCLI == Init /\ [][NextCLI]_vars

\* ---------------------------------------------------------------- claims
Known(F, a, b) == <<a, b>> \in DOMAIN F.cell /\ ~isnan(F.cell[<<a, b>>])

\* C1: after create and any add_sample and get calls, for all labels a and b
\* the cells (a,b) and (b,a) are both unknown or both known with one value.
C1_SymmetricCells ==
    phase = "ready" =>
        \A a, b \in labels(pw) : pw.cell[<<a, b>>] = pw.cell[<<b, a>>]

\* C2: the metric is evaluated at most once for an unordered pair {a,b},
\* whichever argument order the gets on it use.
C2_EvaluatedAtMostOnce ==
    \A a, b \in Samples :
        IF a = b THEN calls[<<a, a>>] <= 1
        ELSE calls[<<a, b>>] + calls[<<b, a>>] <= 1

\* C3: get(a,b), on members or not, returns metric(a.kmer_index, b.kmer_index),
\* the configured metric on the two k-mer indices; afterwards a and b are
\* members (a column, a row and an entry of the sample map each) and the cell
\* (a,b) is known and holds the returned value.
C3_GetReturnsMetric ==
    last.op = "get" =>
        /\ phase = "ready"
        /\ last.ret = distfunc(pw.config, last.a, last.b)
        /\ {last.a, last.b} \subseteq labels(pw)
        /\ {last.a, last.b} \subseteq ToSet(pw.index)
        /\ {last.a, last.b} \subseteq pw.sample_map
        /\ Known(pw, last.a, last.b)
        /\ pw.cell[<<last.a, last.b>>] = last.ret

\* C4: across add_sample and get calls the set of labels never shrinks, and a
\* known cell keeps its value and never becomes unknown again.
C4_GrowsMonotonically ==
    [][/\ labels(pw) \subseteq labels(pw')
       /\ ToSet(pw.index) \subseteq ToSet(pw'.index)
       /\ \A p \in DOMAIN pw.cell :
             ~isnan(pw.cell[p]) => (p \in DOMAIN pw'.cell /\ pw'.cell[p] = pw.cell[p])]_vars

C4_Witness ==
    /\ last.op = "add_sample"
    /\ last.a \in labels(pw) \ initial
    /\ \E a, b \in labels(pw) : a \notin initial /\ Known(pw, a, b)

\* C5: add_sample of a new label adds one row and one column of unknown
\* cells, registers the sample and leaves every existing cell as it was;
\* add_sample of a member changes nothing.
C5_AddSampleEffect ==
    [][last'.op = "add_sample" =>
        LET s == last'.a
        IN  IF s \in labels(pw) THEN pw' = pw /\ calls' = calls
            ELSE /\ pw'.columns = Append(pw.columns, s)
                 /\ pw'.index = Append(pw.index, s)
                 /\ DOMAIN pw'.cell = labels(pw') \X ToSet(pw'.index)
                 /\ \A p \in DOMAIN pw'.cell :
                       IF s \in {p[1], p[2]} THEN isnan(pw'.cell[p])
                       ELSE pw'.cell[p] = pw.cell[p]
                 /\ pw'.sample_map = pw.sample_map \cup {s}
                 /\ pw'.ok
                 /\ calls' = calls]_vars

C5_Witness ==
    /\ last.op = "add_sample"
    /\ last.a \in labels(pw) \ initial
    /\ pw.columns[Len(pw.columns)] = last.a
    /\ \A r \in labels(pw) : isnan(pw.cell[<<last.a, r>>]) /\ isnan(pw.cell[<<r, last.a>>])
    /\ \E a, b \in labels(pw) : a # b /\ Known(pw, a, b)

\* C6: the bulk build over n initial samples, by PwMatrix.create or by
\* pwcomp.pwmatrix, yields a matrix; the metric is evaluated once for each
\* unordered pair of distinct initial samples and never for a sample with
\* itself; every cell between initial samples is known, symmetric, holds the
\* metric of the pair off the diagonal and zero on it; and the counts stay so
\* through every later get.
C6_CreateEager ==
    /\ last.op \in {"create", "pwmatrix"} => phase = "ready"
    /\ phase = "ready" =>
        \A a, b \in initial :
            /\ a # b => calls[<<a, b>>] + calls[<<b, a>>] = 1
            /\ calls[<<a, a>>] = 0
            /\ Known(pw, a, b)
            /\ pw.cell[<<a, b>>] = pw.cell[<<b, a>>]
            /\ a # b => pw.cell[<<a, b>>] \in {distfunc(pw.config, a, b),
                                              distfunc(pw.config, b, a)}
            /\ pw.cell[<<a, a>>] = Float(0, 1)

\* C7: save followed by load yields a cache with the same labels, every known
\* cell with its value and every unknown cell still unknown.
C7_SaveThenLoadPreserves ==
    [][(last.op = "save" /\ last'.op = "load") =>
        /\ pw'.ok
        /\ labels(pw') = labels(pw)
        /\ ToSet(pw'.index) = ToSet(pw.index)
        /\ \A p \in DOMAIN pw.cell : p \in DOMAIN pw'.cell /\ pw'.cell[p] = pw.cell[p]]_vars

\* C8: jaccard(hx, hy) = 1 - |A n B| / |A u B| for the key sets A, B of the
\* maps: independent of the counts, 0 iff A = B, 1 when A and B are disjoint.
C8_JaccardOfKeySets ==
    mres.op = "jaccard" =>
        LET A == DOMAIN hx
            B == DOMAIN hy
        IN  A \cup B # {} =>
                /\ mres.value = Float(Cardinality(A \cup B) - Cardinality(A \cap B),
                                      Cardinality(A \cup B))
                /\ (mres.value = Float(0, 1)) <=> (A = B)
                /\ (A \cap B = {}) => mres.value = Float(1, 1)

\* C10: for every pair of frequency maps, empty ones included, jaccard
\* returns a value in [0,1]: it does not fail.
C10_JaccardInUnitInterval ==
    mres.op = "jaccard" =>
        /\ mres.value.kind = "float"
        /\ 0 <= mres.value.num
        /\ mres.value.num <= mres.value.den

\* C11: a metric call is pure: after jaccard(hx, hy) or JSD(hx, hy) both maps
\* have the keys and counts they had before the call.
C11_MetricsArePure ==
    [][mres'.op \in {"jaccard", "JSD"} => (hx' = hx /\ hy' = hy)]_vars

\* C12: for two Individuals of equal chromosome length, mate returns an
\* Individual of that length whose gene at every position is the gene of one
\* of the two replicated chromosomes at that position; with mutation rate 0
\* it is the gene of one of the two parents at that position.
C12_OffspringGenesFromParents ==
    (offspring.op = "mate" /\ Len(mating[1].chromosome) = Len(mating[2].chromosome)) =>
        /\ offspring.raised = "none"
        /\ Len(offspring.individual.chromosome) = Len(mating[1].chromosome)
        /\ \A i \in 1..Len(offspring.individual.chromosome) :
            /\ offspring.individual.chromosome[i] \in
                   {offspring.replica1[i], offspring.replica2[i]}
            /\ (mating[1].mutation_rate = 0 /\ mating[2].mutation_rate = 0) =>
                   offspring.individual.chromosome[i] \in
                       {mating[1].chromosome[i], mating[2].chromosome[i]}

\* The largest gene a chromosome of the ancestors has at position i.
MaxAncestorGene(i) ==
    CHOOSE g \in Genes :
        /\ \E k \in 1..Len(args.ancestors) : args.ancestors[k].chromosome[i] = g
        /\ \A k \in 1..Len(args.ancestors) : args.ancestors[k].chromosome[i] <= g

\* C13: with mutation rate 0, after any number of generations every gene of
\* every individual in the population and in the legend is a gene some
\* ancestor has at the same position; hence with single-gene individuals,
\* fitness = gene value and mode maximize the top legend entry's fitness is
\* the largest gene of the ancestors after every generation.
C13_GenesComeFromAncestors ==
    (/\ population.created
     /\ \A k \in 1..Len(args.ancestors) : args.ancestors[k].mutation_rate = 0) =>
        /\ \A e \in ToSet(current_generation) \cup ToSet(population.legends) :
             \A i \in 1..Len(e.indiv.chromosome) :
                \E k \in 1..Len(args.ancestors) :
                    args.ancestors[k].chromosome[i] = e.indiv.chromosome[i]
        /\ (/\ Len(yielded) >= 1
            /\ Len(args.ancestors[1].chromosome) = 1
            /\ population.fitness_function = "sum"
            /\ population.maximize
            /\ population.legends # <<>>) =>
               population.legends[1].fitness.value = MaxAncestorGene(1)

\* C14: after each generation of evolve(n_gen, n_fittest, n_random_unfit) the
\* survivors carried into the next generation are exactly
\* n_fittest + n_random_unfit entries.
C14_SurvivorCount ==
    Len(yielded) >= 1 =>
        Len(current_generation) = args.n_fittest + args.n_random_unfit

\* Two generations done, the second one with an offspring, fittest and
\* random unfit survivors both asked for.
C14_Witness ==
    /\ Len(yielded) = 2
    /\ population.ntuples > Len(args.ancestors)
    /\ args.n_fittest >= 1 /\ args.n_random_unfit >= 1
    /\ Len(current_generation) = args.n_fittest + args.n_random_unfit

\* C15: from one yielded snapshot to the next the best (first) fitness of the
\* legend never decreases in maximize mode and never increases in minimize
\* mode.
C15_LegendBestMonotone ==
    [][(/\ Len(yielded) >= 1
        /\ Len(yielded') = Len(yielded) + 1
        /\ yielded[Len(yielded)] # <<>>
        /\ yielded'[Len(yielded')] # <<>>) =>
           LET before == yielded[Len(yielded)][1].fitness.value
               after == yielded'[Len(yielded')][1].fitness.value
           IN  IF population.maximize THEN after >= before ELSE after <= before]_vars

\* A second snapshot whose best fitness is strictly better than the first's.
C15_Witness ==
    /\ Len(yielded) = 2
    /\ yielded[1] # <<>> /\ yielded[2] # <<>>
    /\ population.maximize
    /\ yielded[2][1].fitness.value > yielded[1][1].fitness.value

\* C16: for a constructed Population and arguments evolve accepts
\* (n_fittest, n_random_unfit >= 0 with n_fittest + n_random_unfit <= size),
\* pulling the generator to exhaustion ends, without an error, after exactly
\* n_gen snapshots: it never raises, never stays in a loop that cannot end,
\* and is exhausted with n_gen snapshots yielded.
C16_EvolveTerminates ==
    (/\ population.created
     /\ generator.pc # "none"
     /\ args.n_fittest >= 0 /\ args.n_random_unfit >= 0
     /\ args.n_fittest + args.n_random_unfit <= population.size) =>
        /\ generator.pc \notin {"hung", "raised"}
        /\ generator.pc = "exhausted" => Len(yielded) = args.n_gen

\* C17: construction of a Population raises, and leaves no Population, when
\* the mode is neither "maximize" nor "minimize", the size is not a positive
\* integer, the ancestors are none or fewer than size, or the legend capacity
\* is not a positive integer; a Population that is created holds the size,
\* capacity and mode it was given.
C17_ConstructionRejects ==
    (population.created \/ population.raised # "none") =>
        /\ (\/ args.mode \notin {"maximize", "minimize"}
            \/ args.size.type # "int" \/ args.size.value <= 0
            \/ Len(args.ancestors) = 0
            \/ Len(args.ancestors) < args.size.value
            \/ args.n_legends.type # "int" \/ args.n_legends.value <= 0) =>
               (population.raised = "ValueError" /\ ~population.created)
        /\ population.created =>
               /\ population.raised = "none"
               /\ args.size = Integer(population.size)
               /\ args.n_legends = Integer(population.n_legends)
               /\ population.maximize = (args.mode = "maximize")
               /\ Len(population.evaluated_ancestors) = Len(args.ancestors)

\* A construction refused for its legend capacity alone: 1.0 is not an int.
C17_Witness ==
    /\ population.raised = "ValueError" /\ ~population.created
    /\ args.n_legends = Real(1)
    /\ args.mode = "minimize"
    /\ args.size = Integer(2) /\ Len(args.ancestors) = 3
    /\ args.fitness_function = "sum"

\* C18: a fitness function that returns None or values that cannot be
\* compared makes the construction of the Population fail; the violation
\* never first shows as an error inside a generation of evolve.
C18_FitnessCheckedAtConstruction ==
    /\ population.created => args.fitness_function \notin {"null", "uncomparable"}
    /\ ~(generator.pc = "raised" /\ generator.raised = "TypeError")

\* C19: mate between two Individuals whose chromosome lengths differ raises,
\* returns no offspring, and leaves the chromosomes of both unchanged.
C19_MismatchedMateFails ==
    [][(/\ offspring.op = "none" /\ offspring'.op = "mate"
        /\ Len(mating[1].chromosome) # Len(mating[2].chromosome)) =>
           /\ offspring'.raised = "ValueError"
           /\ offspring'.individual = NoIndividual
           /\ mating' = mating]_vars

\* A refused mate of two lengths, after replicate has mutated a gene of self.
C19_Witness ==
    /\ offspring.op = "mate" /\ offspring.raised = "ValueError"
    /\ Len(mating[1].chromosome) = 2 /\ Len(mating[2].chromosome) = 1
    /\ offspring.replica1 # mating[1].chromosome

\* The landmark indices in increasing order.
RECURSIVE ascending(_)
ascending(idx) ==
    IF idx = {} THEN <<>>
    ELSE LET low == CHOOSE k \in idx : \A j \in idx : k <= j
         IN  <<low>> \o ascending(idx \ {low})

\* C21: the matrix the objective function works on has one row for each of
\* the n samples, the landmarks included, and exactly the landmark columns;
\* its entry (i, j) is the distance between sample i and landmark j.
C21_RestrictedMatrix ==
    dmx # NotChosen =>
        /\ Len(dmx) = Len(dmatrix)
        /\ \A i \in 1..Len(dmx) :
            /\ Len(dmx[i]) = Cardinality(keys_idx)
            /\ \A j \in 1..Len(dmx[i]) :
                dmx[i][j] = dmatrix[i][ascending(keys_idx)[j] + 1]

\* C22: find queries the index only if a build has completed for the selected
\* index; find with an index selected that was never built fails with the
\* "First you have to build the index" error; find, build, add and stats
\* before any init or use fail with the "There is no index created" error.
C22_FindOnlyAfterBuild ==
    /\ (shell.command = "find" /\ shell.outcome = "queried") =>
           config.current_index \in disk.built
    /\ (/\ shell.command = "find"
        /\ has(config, "current_index")
        /\ config.current_index \notin disk.built) =>
           shell.outcome = "First you have to build the index"
    /\ (/\ shell.command \in {"find", "build", "add", "stats"}
        /\ ~has(config, "current_index")) =>
           shell.outcome = "There is no index created"


\* Every tuple evaluated so far in the run: the ancestors and every offspring.
EvaluatedSoFar == ToSet(population.evaluated_ancestors) \cup generation.evaluated

\* C23: after every generation the legend holds the best of all individuals
\* evaluated so far: no evaluated individual that is absent from the legend
\* has a strictly better fitness, under the mode, than an entry of the legend.
C23_LegendHoldsTheBest ==
    (generator.pc \in {"suspended", "exhausted"} /\ Len(yielded) >= 1) =>
        \A x \in EvaluatedSoFar :
            (\A i \in 1..Len(population.legends) :
                 population.legends[i].indiv.obj # x.indiv.obj) =>
            \A i \in 1..Len(population.legends) :
                ~ahead(x, population.legends[i], population.maximize)


\* A legend is ordered when no entry is ahead of the one before it.
ordered(legend, reverse) ==
    \A i \in 1..(Len(legend) - 1) : ~ahead(legend[i + 1], legend[i], reverse)

\* C24: every yielded legend snapshot has at most n_legends entries and is
\* ordered by fitness, descending when maximizing and ascending when
\* minimizing, and no step changes a snapshot that was yielded before it.
C24_SnapshotsBoundedOrderedKept ==
    [][/\ \A i \in 1..Len(yielded) : Len(yielded') >= i /\ yielded'[i] = yielded[i]
       /\ \A i \in 1..Len(yielded') :
              /\ Len(yielded'[i]) <= population'.n_legends
              /\ ordered(yielded'[i], population'.maximize)]_vars

\* Two generations were run, the second one ranked more survivors than the
\* legend can hold and yielded a legend unlike the first, with two fitness values.
C24_Witness ==
    /\ Len(yielded) = 2
    /\ yielded[1] # yielded[2]
    /\ Len(generation.selected) > population.n_legends
    /\ Len(yielded[2]) = 2
    /\ yielded[2][1].fitness.value # yielded[2][2].fitness.value


\* C25: in every generation repopulate draws exactly size - |survivors|
\* mating pairs, each joining two different positions of the survivor list and
\* no two of them the same unordered pair, and the population it returns has
\* exactly size members: one offspring per pair, then all the survivors.
C25_MatingPairs ==
    generation.ran =>
        LET survivors == generation.evaluated_ancestors
            pairs == generation.mating_pairs
            evaluated_population == generation.evaluated_population
        IN  /\ Len(pairs) = population.size - Len(survivors)
            /\ \A k \in 1..Len(pairs) :
                   /\ pairs[k][1] \in 1..Len(survivors)
                   /\ pairs[k][2] \in 1..Len(survivors)
                   /\ pairs[k][1] # pairs[k][2]
            /\ \A a, b \in 1..Len(pairs) :
                   a # b => {pairs[a][1], pairs[a][2]} # {pairs[b][1], pairs[b][2]}
            /\ generation.repopulated =>
                   /\ Len(evaluated_population) = population.size
                   /\ \A i \in 1..Len(survivors) :
                          evaluated_population[Len(pairs) + i] = survivors[i]
                   /\ \A k \in 1..Len(pairs) :
                          \A i \in 1..Len(survivors) : evaluated_population[k].id # survivors[i].id


\* The last generation run selected its survivors and was yielded.
Selected ==
    /\ generation.repopulated
    /\ generator.pc \in {"suspended", "exhausted"}

\* C26: select returns n_fittest + n_random_unfit members of the evaluated
\* population, none of them twice; the first n_fittest are in ranking order
\* and no member outside them has a strictly better fitness, under the mode,
\* than one of them.
C26_SelectKeepsTheFittest ==
    Selected =>
        LET selected == generation.selected
            evaluated_population == generation.evaluated_population
            fittest == take(selected, args.n_fittest)
        IN  /\ Len(selected) = args.n_fittest + args.n_random_unfit
            /\ \A i \in 1..Len(selected) : selected[i] \in ToSet(evaluated_population)
            /\ \A i, j \in 1..Len(selected) : i # j => selected[i].id # selected[j].id
            /\ ordered(fittest, population.maximize)
            /\ \A x \in ToSet(evaluated_population) :
                   (\A i \in 1..Len(fittest) : fittest[i].id # x.id) =>
                   \A i \in 1..Len(fittest) : ~ahead(x, fittest[i], population.maximize)

\* One fittest and one random survivor were kept out of three members, the
\* random one having a worse fitness than the member that was dropped.
C26_Witness ==
    /\ Selected
    /\ args.n_fittest = 1 /\ args.n_random_unfit = 1
    /\ Len(generation.evaluated_population) = 3
    /\ \E x \in ToSet(generation.evaluated_population) :
           /\ \A i \in 1..2 : generation.selected[i].id # x.id
           /\ ahead(x, generation.selected[2], population.maximize)
           /\ ahead(generation.selected[1], x, population.maximize)


\* C28: no Individual object appears more than once in a yielded legend
\* snapshot, whatever the ancestors (the same object at several positions
\* included) and the number of generations.
C28_LegendHoldsEachIndividualOnce ==
    \A s \in 1..Len(yielded) :
        \A i, j \in 1..Len(yielded[s]) :
            i # j => yielded[s][i].indiv.obj # yielded[s][j].indiv.obj


\* Both calls of the race have ended.
RaceOver == race.racing /\ \A t \in Threads : threads[t].pc \in {"returned", "raised"}

\* C27: however two calls of __getitem__((a, b)) on a missing cell interleave,
\* both return metric(a, b), the cell ends up holding that value, and every
\* other cell that was known keeps its value.
C27_RacingGetsAgree ==
    RaceOver =>
        /\ \A t \in Threads :
               threads[t].pc = "returned"
               /\ threads[t].ret = distfunc(pw.config, race.a, race.b)
        /\ <<race.a, race.b>> \in DOMAIN pw.cell
        /\ pw.cell[<<race.a, race.b>>] = distfunc(pw.config, race.a, race.b)
        /\ \A p \in DOMAIN race.before.cell :
               (p # <<race.a, race.b>> /\ ~isnan(race.before.cell[p])) =>
                   (p \in DOMAIN pw.cell /\ pw.cell[p] = race.before.cell[p])

====
